---- MODULE Spec2Model ----
(***************************************************************************)
(* A model of the EDL-Py entry guidance code:                              *)
(*   ParametrizedPlanner.py  bank-profile generators, feasibility penalty, *)
(*                           HEPCost and the offline optimizers            *)
(*   EntryEquations.py       the Entry dynamics engine and the System      *)
(*   MPC.py                  the receding-horizon controller               *)
(*                                                                         *)
(* Arithmetic is fixed point over the integers.                            *)
(*   angles      1 unit = 1/8 degree (Radians(d) = 8*d); every bank        *)
(*               expression is homogeneous in the angle unit, so the       *)
(*               rescaling from radians keeps every comparison             *)
(*   bank times  1 tick = 1/2 second (rates are per tick, accelerations    *)
(*               per tick^2), so that every breakpoint of the three        *)
(*               profile generators is a whole number of ticks             *)
(*   switch-time candidates handed to HEPCost are in seconds, as in Python *)
(***************************************************************************)
EXTENDS Integers, Sequences, FiniteSets, TLC

VARIABLES
    opt,      \* the last call of an offline optimizer entry point and how it ended
    hep,      \* the last call of HEPCost: its arguments and how it ended
    chk,      \* the last call of checkFeasibility and what it returned
    bank,     \* the last call of a bank-profile generator and what it returned
    eng,      \* the Entry instance: its fields, or how its construction failed
    funcs,    \* the derivative functions dynamics(u) has handed out
    evals,    \* the first and the latest evaluation of such a function, with results
    ctl,      \* what the controller is bound to: control_options, control_bounds, references
    mpc,      \* the current call of the receding-horizon controller: its inputs, its result
    sys,      \* the composite System: its three engines and the filter gain
    comp      \* the composite state the integrator owns: nav radius and speed, the
              \* lift- and drag-ratio slots, and the number of steps taken

plannerVars == <<opt, hep, chk, bank>>
entryVars   == <<eng, funcs, evals>>
mpcVars     == <<ctl, mpc>>
sysVars     == <<sys, comp>>

-----------------------------------------------------------------------------
(* Bounds of the model *)

\* switch-time candidates are the multiples of 100 s in -100 .. 100*MaxCand
MaxCand == 3
\* the independent variable of a bank call ranges over -2 .. MaxTick ticks
MaxTick == 70
\* a sequence argument of a bank call holds 0 .. MaxSamples consecutive grid samples
MaxSamples == 3
\* the switch points of a bank call are the multiples of 6 ticks in 0 .. 6*MaxSwitch
MaxSwitch == 5
\* DegFreedom ranges over 1 .. MaxDof
MaxDof == 4
\* the controller's horizon has 1 .. MaxN control segments
MaxN == 3
\* the integrator takes at most MaxSteps steps on the composite state
MaxSteps == 3

-----------------------------------------------------------------------------
(* numpy / builtin helpers *)

Abs(x) == IF x < 0 THEN -x ELSE x

Max(a, b) == IF b > a THEN b ELSE a

\* np.sign
Sign(x) == IF x > 0 THEN 1 ELSE IF x < 0 THEN -1 ELSE 0

RECURSIVE SumSeq(_)
SumSeq(s) == IF s = << >> THEN 0 ELSE Head(s) + SumSeq(Tail(s))

\* np.diff
Diff(T) == [i \in 1..(Len(T) - 1) |-> T[i + 1] - T[i]]

\* unary minus on an array
Neg(T) == [i \in 1..Len(T) |-> -T[i]]

\* np.radians, in the model's angle unit (1/8 degree)
Radians(deg) == 8 * deg

\* a rate per second as a rate per tick; a rate per second^2 as a rate per tick^2
PerTick(x) == x \div 2
PerTick2(x) == x \div 4

-----------------------------------------------------------------------------
(* ParametrizedPlanner.py : what executing the module binds *)

\* the keyword parameters of Entry.__init__ (EntryEquations.py line 12)
EntryInitParameters == {"PlanetModel", "VehicleModel", "Coriolis", "DegFreedom", "Powered"}

\* Entry(Trigger = partial(DeployParachute, {'velBias':30})), as written at lines
\* 131, 183 and 192
TriggerKeywordRaises == "Trigger" \notin EntryInitParameters

\* the def statements of the module, in the order they are executed
ModuleDefs == <<"HEPBankReduced", "HEPBankReducedSmooth", "HEPBank", "checkFeasibility",
                "HEPCost", "Optimize", "OptimizeSmooth">>

\* a def evaluates its default arguments when it is executed: the default
\* entry = Entry(Trigger = ...) of HEPCost (line 131) is such a call
DefRaises(name) == name = "HEPCost" /\ TriggerKeywordRaises

\* the names the module has bound when its execution ends: every def before the
\* first one that raises
Bound ==
    {ModuleDefs[i] : i \in {k \in 1..Len(ModuleDefs) :
                               \A j \in 1..k : ~DefRaises(ModuleDefs[j])}}

\* how the execution of the module ends
ModuleExecution ==
    IF \E i \in 1..Len(ModuleDefs) : DefRaises(ModuleDefs[i])
    THEN [bound |-> Bound,
          raised |-> "TypeError: __init__() got an unexpected keyword argument 'Trigger'"]
    ELSE [bound |-> Bound, raised |-> ""]

\* what a call of a name the module never bound gives
NotDefined(name) == "NameError: name '" \o name \o "' is not defined"

-----------------------------------------------------------------------------
(* ParametrizedPlanner.py : feasibility penalty *)

checkFeasibilityNoNegativeTerm(T, sign) ==
    LET sig  == [i \in 1..(Len(T) - 1) |-> sign * Diff(T)[i]]
        cost == SumSeq([i \in 1..Len(sig) |-> sig[i] + Abs(sig[i])]) * 100000
    IN  IF cost # 0 THEN Max(cost, 10000000) ELSE 0

checkFeasibility(T, sign) ==
    LET sig  == [i \in 1..(Len(T) - 1) |-> sign * Diff(T)[i]]
        cost == (SumSeq([i \in 1..Len(sig) |-> sig[i] + Abs(sig[i])])
                 + SumSeq([i \in 1..Len(T) |-> Abs(T[i]) - T[i]])) * 100000
    IN  IF cost # 0 THEN Max(cost, 10000000) ELSE 0

\* the `check` argument the optimizers hand to HEPCost
\*   "time"     check = checkFeasibility                      (sign = -1)
\*   "vel"      check = lambda v: checkFeasibility(-v,sign=1)
\*   "true"     check = lambda T: True                        (True == 1)
ApplyCheck(check, T) ==
    CASE check = "time" -> checkFeasibility(T, -1)
      [] check = "vel"  -> checkFeasibility(Neg(T), 1)
      [] OTHER          -> 1

\* A call HEPCost(T, x0, entry, target, bank, getIV, check). The def of HEPCost
\* raises at line 131, so the module never binds the name and the call ends in
\* NameError before any argument is looked at. The body, were it bound with entry
\* an Entry of EntryEquations.py: line 133 evaluates check(T); a value above 300
\* is returned at once. Otherwise line 144 hands the bank FUNCTION hep to
\* entry.dynamics, and the first evaluation of the right-hand side unpacks it as
\* a control vector (EntryEquations.py line 55): TypeError leaves odeint and
\* HEPCost, and lines 147-154 (trigger lookup, cost) are never reached. The
\* record keeps what check(T) returned (penalty), what HEPCost returned (J, 0
\* when it raised), whether odeint was called (integrated) and the exception
\* (raised).
HEPCost(T, check) ==
    LET J == ApplyCheck(check, T)
    IN  IF "HEPCost" \notin Bound
        THEN [T |-> T, check |-> check, penalty |-> 0, J |-> 0, integrated |-> FALSE,
              raised |-> NotDefined("HEPCost")]
        ELSE IF J > 300
        THEN [T |-> T, check |-> check, penalty |-> J, J |-> J, integrated |-> FALSE,
              raised |-> ""]
        ELSE [T |-> T, check |-> check, penalty |-> J, J |-> 0, integrated |-> TRUE,
              raised |-> "TypeError: 'function' object is not iterable"]

-----------------------------------------------------------------------------
(* ParametrizedPlanner.py : bank-profile generators *)

\* The independent variable of a generator is a tagged value:
\*   [scalar |-> TRUE,  v |-> t]        a float / int
\*   [scalar |-> FALSE, v |-> <<..>>]   a sequence
\* and so is what it returns.
Scalar(x)   == [scalar |-> TRUE, v |-> x]
Sequence(s) == [scalar |-> FALSE, v |-> s]

\* the isinstance test and `T = [T]`
AsList(T) == IF T.scalar THEN <<T.v>> ELSE T.v

\* default arguments minBank = np.radians(15.), maxBank = np.radians(85.)
minBankDefault == Radians(15)
maxBankDefault == Radians(85)

\* one pass of the loop body of HEPBankReduced
HEPBankReducedAt(t, t1, t2, minBank, maxBank) ==
    LET maxRate == PerTick(Radians(20))
        ti1     == t1 + (2 * maxBank) \div maxRate
        ti2     == t2 + (maxBank + minBank) \div maxRate
    IN  IF t <= t1 THEN maxBank
        ELSE IF t >= t1 /\ t <= ti1 THEN maxBank - maxRate * (t - t1)
        ELSE IF t >= ti1 /\ t <= t2 THEN -maxBank
        ELSE IF t >= t2 /\ t <= ti2 THEN -maxBank + maxRate * (t - t2)
        ELSE minBank

HEPBankReduced(T, t1, t2, minBank, maxBank) ==
    LET Ts     == AsList(T)
        banks  == [i \in 1..Len(Ts) |-> HEPBankReducedAt(Ts[i], t1, t2, minBank, maxBank)]
    IN  IF T.scalar THEN Scalar(banks[1]) ELSE Sequence(banks)

\* one pass of the loop body of HEPBankReducedSmooth; noMax1 is computed by the
\* source and read nowhere
HEPBankReducedSmoothAt(t, t1, t2, minBank, maxBank) ==
    LET maxRate == PerTick(Radians(20))
        maxAcc  == PerTick2(Radians(5))
        dt      == maxRate \div maxAcc
        dbank   == (maxRate * maxRate) \div (2 * maxAcc)
        t1a     == t1 + dt
        t1v     == t1 + (2 * maxBank) \div maxRate
        t1d     == t1v + dt
        noMax1  == t1d >= t2
        t2a     == t2 + dt
        t2v     == t2 + (minBank + maxBank) \div maxRate
        t2d     == t2v + dt
    IN  IF t <= t1 THEN maxBank
        ELSE IF t > t1 /\ t <= t1a
             THEN maxBank - (maxAcc * (t - t1) * (t - t1)) \div 2
        ELSE IF t > t1a /\ t <= t1v
             THEN maxBank - dbank - maxRate * (t - t1a)
        ELSE IF t > t1v /\ t <= t1d
             THEN dbank - maxBank - maxRate * (t - t1v)
                  + (maxAcc * (t - t1v) * (t - t1v)) \div 2
        ELSE IF t > t1d /\ t <= t2 THEN -maxBank
        ELSE IF t > t2 /\ t <= t2a
             THEN -maxBank + (maxAcc * (t - t2) * (t - t2)) \div 2
        ELSE IF t > t2a /\ t <= t2v
             THEN dbank - maxBank + maxRate * (t - t2a)
        ELSE IF t > t2v /\ t <= t2d
             THEN minBank - dbank + maxRate * (t - t2v)
                  - (maxAcc * (t - t2v) * (t - t2v)) \div 2
        ELSE minBank

\* isScalar is set and never read: the list is returned whatever T was
HEPBankReducedSmooth(T, t1, t2, minBank, maxBank) ==
    LET Ts     == AsList(T)
        banks  == [i \in 1..Len(Ts) |->
                      HEPBankReducedSmoothAt(Ts[i], t1, t2, minBank, maxBank)]
    IN  Sequence(banks)

\* one pass of the loop body of HEPBank
HEPBankAt(t, t1, t2, t3, minBank, maxBank) ==
    LET maxRate == PerTick(Radians(20))
        ti1     == t1 + (maxBank + minBank) \div maxRate
        ti2     == t2 + (2 * maxBank) \div maxRate
        ti3     == t3 + (maxBank + minBank) \div maxRate
    IN  IF t < t1 /\ t >= 0 THEN -minBank
        ELSE IF t >= t1 /\ t <= ti1 THEN -minBank + maxRate * (t - t1)
        ELSE IF t >= ti1 /\ t <= t2 THEN maxBank
        ELSE IF t >= t2 /\ t <= ti2 THEN maxBank - maxRate * (t - t2)
        ELSE IF t >= ti2 /\ t <= t3 THEN -maxBank
        ELSE IF t >= t3 /\ t <= ti3 THEN -maxBank + maxRate * (t - t3)
        ELSE minBank

HEPBank(T, t1, t2, t3, minBank, maxBank) ==
    LET Ts     == AsList(T)
        banks  == [i \in 1..Len(Ts) |-> HEPBankAt(Ts[i], t1, t2, t3, minBank, maxBank)]
    IN  IF T.scalar THEN Scalar(banks[1]) ELSE Sequence(banks)

\* bankFun(iv, *T): the generator applied to a switch tuple
ApplyBank(gen, T, sw) ==
    CASE gen = "HEPBank" ->
           HEPBank(T, sw[1], sw[2], sw[3], minBankDefault, maxBankDefault)
      [] gen = "HEPBankReduced" ->
           HEPBankReduced(T, sw[1], sw[2], minBankDefault, maxBankDefault)
      [] OTHER ->
           HEPBankReducedSmooth(T, sw[1], sw[2], minBankDefault, maxBankDefault)

-----------------------------------------------------------------------------
(* ParametrizedPlanner.py : the offline optimizers and HEPCost calls *)

\* the entries of a switch vector: times in seconds, or negated velocities
CandidateTimes == {100 * k : k \in -1..MaxCand}
CandidateVels  == {100 * k : k \in -MaxCand..1}

Tuples(S, n) == IF n = 2 THEN S \X S ELSE S \X S \X S

\* the switch vectors HEPCost is called with: negated velocities for the velocity
\* check and times otherwise; two or three switches as Optimize has them, two
\* with OptimizeSmooth's lambda T: True
Candidates(check) ==
    IF check = "vel" THEN Tuples(CandidateVels, 2) \cup Tuples(CandidateVels, 3)
    ELSE IF check = "time" THEN Tuples(CandidateTimes, 2) \cup Tuples(CandidateTimes, 3)
    ELSE Tuples(CandidateTimes, 2)

\* the check callables the module defines: checkFeasibility (the default of
\* HEPCost, and Optimize's for iv = 'time'), Optimize's lambda for 'vel', and
\* OptimizeSmooth's lambda T: True
Checks == {"time", "vel", "true"}

NoHep  == [T |-> << >>, check |-> "none", penalty |-> 0, J |-> 0, integrated |-> FALSE,
           raised |-> ""]
NoChk  == [T |-> << >>, sign |-> 0, ret |-> 0]
NoBank == [gen |-> "none", T |-> Sequence(<< >>), sw |-> << >>, done |-> FALSE,
           ret |-> Sequence(<< >>)]
Idle   == [entry |-> "none", n |-> 0, bankFun |-> "none", check |-> "none",
           status |-> "idle"]

\* A call Optimize(x0, n, iv). The module never binds the name (its execution
\* ends at line 131), so the call ends in NameError. The body, were it bound: n
\* outside {2, 3} prints and returns None; otherwise lines 161-181 pick guess,
\* bankFun, getIV and check (an iv that is neither 'time' nor contains 'vel'
\* leaves getIV and check unbound) and line 183 raises TypeError, Entry.__init__
\* taking no Trigger keyword; minimize is never called.
Optimize(n, iv) ==
    LET bankFun == IF n = 3 THEN "HEPBank" ELSE "HEPBankReducedSmooth"
        check   == IF iv \in {"time", "vel"} THEN iv ELSE "unbound"
    IN  /\ IF "Optimize" \notin Bound
           THEN opt' = [Idle EXCEPT !.entry = "Optimize", !.n = n,
                                    !.status = NotDefined("Optimize")]
           ELSE IF n \notin {2, 3}
           THEN opt' = [Idle EXCEPT !.entry = "Optimize", !.n = n, !.status = "None"]
           ELSE opt' = [entry |-> "Optimize", n |-> n, bankFun |-> bankFun,
                        check |-> check, status |-> "TypeError"]
        /\ UNCHANGED <<hep, chk, bank, entryVars, mpcVars, sysVars>>

\* A call OptimizeSmooth(x0): NameError, the name not being bound. The body,
\* were it bound: line 192 raises TypeError (Entry.__init__ takes no Trigger
\* keyword) before bankFun, check and bounds are bound; differential_evolution is
\* never called.
OptimizeSmooth ==
    /\ IF "OptimizeSmooth" \notin Bound
       THEN opt' = [Idle EXCEPT !.entry = "OptimizeSmooth", !.n = 2,
                                !.status = NotDefined("OptimizeSmooth")]
       ELSE opt' = [entry |-> "OptimizeSmooth", n |-> 2, bankFun |-> "none",
                    check |-> "unbound", status |-> "TypeError"]
    /\ UNCHANGED <<hep, chk, bank, entryVars, mpcVars, sysVars>>

\* a caller calls HEPCost on a switch vector, with one of the module's checks
CallHEPCost ==
    /\ \E check \in Checks : \E T \in Candidates(check) :
           hep' = HEPCost(T, check)
    /\ UNCHANGED <<opt, chk, bank, entryVars, mpcVars, sysVars>>

\* a caller calls checkFeasibility(T, sign) on a vector of two or three switch
\* times: sign = -1 is the default (the time parametrization), sign = 1 what
\* the velocity parametrization passes
CallCheckFeasibility ==
    /\ \E sign \in {-1, 1} : \E T \in Candidates("time") :
           chk' = [T |-> T, sign |-> sign, ret |-> checkFeasibility(T, sign)]
    /\ UNCHANGED <<opt, hep, bank, entryVars, mpcVars, sysVars>>

\* a call of a generator, on a scalar or on consecutive samples of the grid
SwitchTicks == {6 * k : k \in 0..MaxSwitch}

BankInputs ==
    {Scalar(t) : t \in -2..MaxTick}
      \cup {Sequence([i \in 1..n |-> t + i - 1]) : t \in -2..MaxTick, n \in 0..MaxSamples}

Generators == {"HEPBank", "HEPBankReduced", "HEPBankReducedSmooth"}

\* the number of switch points a generator takes
Switches(gen) == IF gen = "HEPBank" THEN 3 ELSE 2

BankCall(gen) ==
    /\ bank.gen = gen
    /\ ~bank.done
    /\ bank' = [bank EXCEPT !.done = TRUE, !.ret = ApplyBank(gen, bank.T, bank.sw)]
    /\ UNCHANGED <<opt, hep, chk, entryVars, mpcVars, sysVars>>

-----------------------------------------------------------------------------
(* EntryEquations.py : the Entry dynamics engine *)

\* Angles of the state and control vectors are indices -2 .. 2 into a table of
\* exact sines and cosines (the 3-4-5 triangle), in units of 1/5:
\*   index  -2     -1     0    1     2
\*   sin    -4/5   -3/5   0    3/5   4/5
\*   cos     3/5    4/5   1    4/5   3/5
sin5(a) == CASE a = -2 -> -4 [] a = -1 -> -3 [] a = 0 -> 0 [] a = 1 -> 3 [] OTHER -> 4
cos5(a) == CASE a = -2 -> 3 [] a = -1 -> 4 [] a = 0 -> 5 [] a = 1 -> 4 [] OTHER -> 3

\* sin(a - b) and cos(a - b), in units of 1/25
sin25diff(a, b) == sin5(a) * cos5(b) - cos5(a) * sin5(b)
cos25diff(a, b) == cos5(a) * cos5(b) + sin5(a) * sin5(b)

\* Planet('Mars'): radius, mu, and the atmosphere table altitude -> (density,
\* speed of sound). omega is "number" (a stored rate) or "callable".
Planet(omega) == [radius |-> 10, mu |-> 3600, omega |-> omega]
atmosphere(h) == IF h <= 5 THEN <<4, 2>> ELSE <<1, 2>>

\* EntryVehicle(): area, mass, thrust, Mach -> (cD, cL), throttle -> mass flow
vehicle == [area |-> 2, mass |-> 8, ThrustApplied |-> 40]
aerodynamic_coefficients(M) == IF M > 4 THEN <<3, 1>> ELSE <<4, 2>>
mdot(throttle) == -3 * throttle

\* state vectors (r, theta, phi, v, gamma, psi, s, m) inside the valid envelope
\* (v > 0, cos(gamma) # 0, cos(phi) # 0, r > 0, m > 0) and control vectors
\* (sigma, throttle, mu / thrustAngle)
StateVectors   == {<<15, 0, 0, 12, -1, 0, 100, 8>>, <<25, 1, -1, 6, 1, 1, 50, 4>>}
ControlVectors == {<<1, 0, 0>>, <<2, 1, 1>>}

\* a derivative vector is in units of 1/100
VecAdd(a, b) == [i \in 1..8 |-> a[i] + b[i]]

\* what evaluating a derivative function gives: a vector, or the exception raised
Value(v)   == [ok |-> TRUE, err |-> "", val |-> v]
Raises(e)  == [ok |-> FALSE, err |-> e, val |-> << >>]

NoEngine == [status |-> "none", omega |-> "number", powered |-> FALSE,
             drag_ratio |-> 1, lift_ratio |-> 1, dyn_model |-> "unset"]

\* Entry.__init__: the attribute __entry_2dof does not exist, so DegFreedom = 2
\* raises AttributeError out of the constructor; any value other than 2 or 3 prints
\* a message and returns the instance with no dyn_model attribute
EntryInit(PlanetModel, Coriolis, DegFreedom, Powered) ==
    LET self == [status |-> "constructed", omega |-> PlanetModel.omega,
                 powered |-> Powered, drag_ratio |-> 1, lift_ratio |-> 1,
                 dyn_model |-> "unset"]
    IN  IF DegFreedom = 2 THEN [NoEngine EXCEPT !.status = "AttributeError"]
        ELSE IF DegFreedom = 3
             THEN (IF Coriolis THEN [self EXCEPT !.dyn_model = "entry_vinhs"]
                               ELSE [self EXCEPT !.dyn_model = "entry_3dof"])
        ELSE self

update_ratios(self, LR, DR) == [self EXCEPT !.drag_ratio = DR, !.lift_ratio = LR]

igniteToggles(self) == [self EXCEPT !.powered = ~self.powered]

ignite(self) == [self EXCEPT !.powered = TRUE]

\* Entry.dynamics(u): which of the two lambdas is returned is decided here, by
\* self.powered at the time of the request
dynamics(self, u) == [u |-> u, thrust |-> self.powered]

\* Entry.__entry_3dof
entry_3dof(self, x, t, u) ==
    LET r == x[1]  theta == x[2]  phi == x[3]  v == x[4]
        gamma == x[5]  psi == x[6]  s == x[7]  m == x[8]
        sigma == u[1]  throttle == u[2]  mu == u[3]
        planet == Planet(self.omega)
        h     == r - planet.radius
        rho   == atmosphere(h)[1]
        a     == atmosphere(h)[2]
        M     == v \div a
        cD    == aerodynamic_coefficients(M)[1]
        cL    == aerodynamic_coefficients(M)[2]
        f     == (100 * rho * vehicle.area * v * v) \div (2 * vehicle.mass)
        L     == f * cL * self.lift_ratio
        D     == f * cD * self.drag_ratio
        dh     == (100 * v * sin5(gamma)) \div 5
        dtheta == (100 * v * cos5(gamma) * cos5(psi)) \div (5 * r * cos5(phi))
        dphi   == (100 * v * cos5(gamma) * sin5(psi)) \div (25 * r)
        dv     == -D - (100 * planet.mu * sin5(gamma)) \div (5 * r * r)
        dgamma == (L * cos5(sigma)) \div (5 * v)
                  + (cos5(gamma) * ((100 * v) \div r - (100 * planet.mu) \div (r * r * v)))
                    \div 5
        dpsi   == -((L * sin5(sigma)) \div (v * cos5(gamma)))
                  - (100 * v * cos5(gamma) * cos5(psi) * sin5(phi)) \div (25 * r * cos5(phi))
        ds     == -((100 * v * planet.radius * cos5(gamma)) \div (5 * r))
        dm     == 100 * mdot(throttle)
    IN  Value(<<dh, dtheta, dphi, dv, dgamma, dpsi, ds, dm>>)

\* Entry.__entry_vinhs: line 89 multiplies self.planet.omega and line 90 calls it,
\* so a callable omega raises TypeError at line 89 and a stored rate at line 90;
\* line 94, which reads the global control_fun (bound nowhere), is never reached
entry_vinhs(self, x, t, u) ==
    IF self.omega = "callable" THEN Raises("TypeError: unsupported operand")
    ELSE Raises("TypeError: not callable")

\* self.dyn_model(x, t, u)
dyn_model(self, x, t, u) ==
    CASE self.dyn_model = "entry_3dof"  -> entry_3dof(self, x, t, u)
      [] self.dyn_model = "entry_vinhs" -> entry_vinhs(self, x, t, u)
      [] OTHER                          -> Raises("AttributeError")

\* Entry.__thrust_3dof
thrust_3dof(self, x, u) ==
    LET v == x[4]  gamma == x[5]  m == x[8]
        throttle == u[2]  thrustAngle == u[3]
    IN  <<0, 0, 0,
          (100 * vehicle.ThrustApplied * throttle * cos25diff(thrustAngle, gamma))
             \div (25 * m),
          (100 * vehicle.ThrustApplied * throttle * sin25diff(thrustAngle, gamma))
             \div (25 * m * v),
          0, 0, 100 * mdot(throttle)>>

\* the lambda of a mutant dynamics() that tests self.powered when it is called
LambdaTestsPoweredLate(self, fn, x, t) ==
    LET base == dyn_model(self, x, t, fn.u)
    IN  IF ~base.ok THEN base
        ELSE IF self.powered THEN Value(VecAdd(base.val, thrust_3dof(self, x, fn.u)))
        ELSE base

\* the lambda dynamics(u) returned, called on (x, t): it reads self at call time
Lambda(self, fn, x, t) ==
    LET base == dyn_model(self, x, t, fn.u)
    IN  IF ~base.ok THEN base
        ELSE IF fn.thrust THEN Value(VecAdd(base.val, thrust_3dof(self, x, fn.u)))
        ELSE base

(* the operations on one Entry instance *)

\* the correction ratios update_ratios is called with (1 is the nominal model)
Ratios == {1, 2}

Construct ==
    /\ eng.status = "none"
    /\ \E omega \in {"number", "callable"} : \E Coriolis \in BOOLEAN :
       \E DegFreedom \in 1..MaxDof : \E Powered \in BOOLEAN :
           eng' = EntryInit(Planet(omega), Coriolis, DegFreedom, Powered)
    /\ UNCHANGED <<plannerVars, funcs, evals, mpcVars, sysVars>>

UpdateRatios ==
    /\ eng.status = "constructed"
    /\ \E LR \in Ratios : \E DR \in Ratios : eng' = update_ratios(eng, LR, DR)
    /\ UNCHANGED <<plannerVars, funcs, evals, mpcVars, sysVars>>

Ignite ==
    /\ eng.status = "constructed"
    /\ eng' = ignite(eng)
    /\ UNCHANGED <<plannerVars, funcs, evals, mpcVars, sysVars>>

Dynamics ==
    /\ eng.status = "constructed"
    /\ \E u \in ControlVectors : funcs' = funcs \cup {dynamics(eng, u)}
    /\ UNCHANGED <<plannerVars, eng, evals, mpcVars, sysVars>>

\* a derivative function is called, as the integrator does; the record keeps the
\* function, the arguments, the ratios in force and the result. evals keeps the
\* first evaluation and the latest one.
Evaluate ==
    /\ eng.status = "constructed"
    /\ \E fn \in funcs : \E x \in StateVectors : \E t \in {0} :
          LET e == [f |-> fn, x |-> x, t |-> t,
                    lift_ratio |-> eng.lift_ratio, drag_ratio |-> eng.drag_ratio,
                    res |-> Lambda(eng, fn, x, t)]
          IN  evals' = IF evals = << >> THEN <<e>> ELSE <<evals[1], e>>
    /\ UNCHANGED <<plannerVars, eng, funcs, mpcVars, sysVars>>

-----------------------------------------------------------------------------
(* MPC.py : the receding-horizon controller *)

\* Velocities handed to the reference are in units of 0.1 m/s, so that the 3.7 of
\* lateral() is the integer 37; drag is in m/s^2, T in seconds, fpa a table index.

\* options(N, T); dt = float(T)/N in hundredths of a second
options(N, T) == [N |-> N, T |-> T, dt |-> (100 * T) \div N]

lateralIgnoresHorizon(velocity, drag, fpa, T) == 10 * velocity

\* lateral(velocity, drag, fpa, T): vf in units of 0.1 m/s
lateral(velocity, drag, fpa, T) ==
    LET vdot == 2 * drag * sin5(fpa) - 37
    IN  10 * velocity + T * vdot

\* references['bank'](vf): the reference bank profile over velocity, here a ramp
\* through zero at ref.zero (a bank reversal), rising or falling with ref.sense
ReferenceBank(references, vf) == references.sense * (vf - references.zero)

\* what optimize() can return as sol.x: N = 1 takes the minimize_scalar path and
\* returns a scalar inside control_bounds[0], N > 1 the SLSQP path and returns an
\* array of N values inside the bounds; pi/6 is the guess
SolValues(b) == {b[1], Radians(30), b[2]}

RECURSIVE SeqsOver(_, _)
SeqsOver(S, n) ==
    IF n = 0 THEN {<< >>}
    ELSE {Append(q, v) : q \in SeqsOver(S, n - 1), v \in S}

optimize(control_options, control_bounds) ==
    IF control_options.N > 1
    THEN {Sequence(q) : q \in SeqsOver(SolValues(control_bounds[1]), control_options.N)}
    ELSE {Scalar(v) : v \in SolValues(control_bounds[1])}

\* controller(control_options, control_bounds, references, **kwargs), given the sol
\* optimize() returned
controller(control_options, control_bounds, references, kwargs, sol) ==
    LET vf == lateral(kwargs.velocity, kwargs.drag, kwargs.fpa, control_options.T)
    IN  IF control_options.N > 1
        THEN sol.v[1] * Sign(ReferenceBank(references, vf))
        ELSE sol.v * Sign(ReferenceBank(references, vf))

NoCall == [state |-> "idle", kwargs |-> [velocity |-> 0, drag |-> 0, fpa |-> 0],
           sol |-> Scalar(0), cmd |-> 0]

\* the simulation reaches a control update and gathers the keyword arguments
Measure ==
    /\ mpc.state # "called"
    /\ \E velocity \in {100, 300} : \E drag \in {0, 10} : \E fpa \in {-1, 0} :
           mpc' = [NoCall EXCEPT !.state = "called",
                                 !.kwargs = [velocity |-> velocity, drag |-> drag,
                                             fpa |-> fpa]]
    /\ UNCHANGED <<plannerVars, entryVars, ctl, sysVars>>

\* one call of controller(): builds the bounds list, runs optimize, forces the sign
Controller ==
    /\ mpc.state = "called"
    /\ LET bounds == [i \in 1..ctl.control_options.N |-> ctl.control_bounds]
       IN  \E sol \in optimize(ctl.control_options, bounds) :
               mpc' = [mpc EXCEPT !.state = "returned", !.sol = sol,
                          !.cmd = controller(ctl.control_options, ctl.control_bounds,
                                             ctl.references, mpc.kwargs, sol)]
    /\ UNCHANGED <<plannerVars, entryVars, ctl, sysVars>>

-----------------------------------------------------------------------------
(* EntryEquations.py : the composite System and its ratio filter *)

\* Ratios in the composite state are fixed point with denominator Den = 4^MaxSteps;
\* the filter gain is in quarters per second and the integrator steps by one
\* second, so that MaxSteps forward-Euler steps are exact.
RECURSIVE Pow4(_)
Pow4(n) == IF n = 0 THEN 1 ELSE 4 * Pow4(n - 1)
Den == Pow4(MaxSteps)

FadingMemoryReversed(currentValue, measuredValue, gain) ==
    gain * (currentValue - measuredValue)

\* Filter.FadingMemory
FadingMemory(currentValue, measuredValue, gain) == gain * (measuredValue - currentValue)

\* EDL(InputSample): CD, CL, rho0, sh = InputSample; an Entry on
\* Planet(rho0, scaleHeight = sh) and EntryVehicle(CD, CL). The four components
\* are relative offsets from the nominal values; EDL() takes np.zeros(4), the
\* nominal engine
EDL(InputSample) ==
    [CD |-> InputSample[1], CL |-> InputSample[2],
     rho0 |-> InputSample[3], scaleHeight |-> InputSample[4]]
Nominal == <<0, 0, 0, 0>>

\* self.planet.atmosphere(h) of such an engine: the density of an exponential
\* atmosphere with scale height (1 + sh) * H at h is the nominal one at
\* h / (1 + sh), times (1 + rho0); the speed of sound is the nominal one
PlanetAtmosphere(self, h) ==
    <<atmosphere(h \div (1 + self.scaleHeight))[1] * (1 + self.rho0), atmosphere(h)[2]>>

\* self.vehicle.aerodynamic_coefficients(M) of such an engine
VehicleCoefficients(self, M) ==
    <<aerodynamic_coefficients(M)[1] * (1 + self.CD),
      aerodynamic_coefficients(M)[2] * (1 + self.CL)>>

\* Entry.aeroforces(r, v) on one-element arrays: (L[0], D[0]), in hundredths
aeroforces(self, r, v) ==
    LET h   == r - Planet("number").radius
        rho == PlanetAtmosphere(self, h)[1]
        a   == PlanetAtmosphere(self, h)[2]
        M   == v \div a
        cD  == VehicleCoefficients(self, M)[1]
        cL  == VehicleCoefficients(self, M)[2]
        f   == (100 * rho * vehicle.area * v * v) \div (2 * vehicle.mass)
    IN  <<f * cL, f * cD>>

\* System.__init__
SystemInit(InputSample) ==
    [model |-> EDL(Nominal), truth |-> EDL(InputSample), nav |-> EDL(InputSample),
     gain |-> 0]

\* System.setFilterGain
setFilterGain(self, gain) == [self EXCEPT !.gain = gain]

\* System.__filterUpdate: x.r, x.v, x.RL, x.RD are x[8], x[11], x[16], x[17]
filterUpdate(self, x, t) ==
    LET RL == x.RL
        RD == x.RD
        LD   == aeroforces(self.model, x.r, x.v)
        LmDm == aeroforces(self.nav, x.r, x.v)
        dRL == FadingMemory(RL, (Den * LmDm[1]) \div LD[1], self.gain)
        dRD == FadingMemory(RD, (Den * LmDm[2]) \div LD[2], self.gain)
    IN  <<dRL, dRD>>

\* the gains setFilterGain is called with (it stores whatever it is given): 0,
\* 1/4, 1 and 2 per second
Gains == {0, 1, 4, 8}

SetFilterGain ==
    /\ \E gain \in Gains : sys' = setFilterGain(sys, gain)
    /\ sys' # sys
    /\ UNCHANGED <<plannerVars, entryVars, mpcVars, comp>>

\* the (radius, speed) pairs of the navigated state, at altitudes 5 and 8
NavPoints == {<<15, 12>>, <<18, 6>>}

\* the step sizes of the caller's integration loop, in seconds
StepSizes == {1, 2}

\* The caller's integration loop (it is not part of EntryEquations.py): one
\* fixed step of h seconds, forward Euler, on the two ratio slots. It evaluates
\* the derivative function System.dynamics(u) returned once, at the current
\* composite state, and advances the slots by h times the filter derivative; the
\* vehicle moves to another point of the envelope. comp keeps the derivative d
\* that was evaluated and the step h that was taken.
IntegrationStep ==
    /\ comp.n < MaxSteps
    /\ LET d == filterUpdate(sys, comp, comp.n)
       IN  \E x \in NavPoints : \E h \in StepSizes :
               comp' = [r |-> x[1], v |-> x[2],
                        RL |-> comp.RL + (h * d[1]) \div 4,
                        RD |-> comp.RD + (h * d[2]) \div 4,
                        n |-> comp.n + 1, d |-> d, h |-> h]
    /\ UNCHANGED <<plannerVars, entryVars, mpcVars, sys>>

-----------------------------------------------------------------------------
vars == <<opt, hep, chk, bank, eng, funcs, evals, ctl, mpc, sys, comp>>

PlannerIdle == opt = Idle /\ hep = NoHep /\ chk = NoChk /\ bank = NoBank
EntryIdle   == eng = NoEngine /\ funcs = {} /\ evals = << >>
Unbound     == [control_options |-> options(1, 1), control_bounds |-> <<0, 0>>,
                references |-> [zero |-> 0, sense |-> 1]]
MpcIdle     == ctl = Unbound /\ mpc = NoCall
SysIdle     == sys = SystemInit(Nominal) /\ comp = [r |-> 15, v |-> 12, RL |-> Den, RD |-> Den, n |-> 0, d |-> <<0, 0>>, h |-> 0]

InitOptimizer ==
    /\ PlannerIdle
    /\ EntryIdle
    /\ MpcIdle
    /\ SysIdle

NextOptimizer ==
    \/ \E n \in {1, 2, 3} : \E iv \in {"time", "vel", "energy"} : Optimize(n, iv)
    \/ OptimizeSmooth
    \/ CallHEPCost

\* calls of the offline optimizer entry points and of HEPCost
SpecOptimizer == InitOptimizer /\ [][NextOptimizer]_vars

InitFeasibility ==
    /\ PlannerIdle
    /\ EntryIdle
    /\ MpcIdle
    /\ SysIdle

NextFeasibility ==
    CallCheckFeasibility

\* checkFeasibility called on switch vectors
SpecFeasibility == InitFeasibility /\ [][NextFeasibility]_vars

InitBank ==
    /\ EntryIdle
    /\ MpcIdle
    /\ SysIdle
    /\ opt = Idle
    /\ hep = NoHep
    /\ chk = NoChk
    /\ \E g \in Generators : \E T \in BankInputs : \E sw \in Tuples(SwitchTicks, Switches(g)) :
           bank = [gen |-> g, T |-> T, sw |-> sw, done |-> FALSE, ret |-> Sequence(<< >>)]

NextBank ==
    \E gen \in Generators : BankCall(gen)

\* the bank-profile generators, each applied to every input of the bounded grid
SpecBank == InitBank /\ [][NextBank]_vars

InitEntry ==
    /\ PlannerIdle
    /\ EntryIdle
    /\ MpcIdle
    /\ SysIdle

NextEntry ==
    \/ Construct
    \/ UpdateRatios
    \/ Ignite
    \/ Dynamics
    \/ Evaluate

\* one Entry instance under any sequence of its operations
SpecEntry == InitEntry /\ [][NextEntry]_vars

\* mpc = partial(controller, control_options=options(N, T),
\*               control_bounds=(0, pi/2), references=references)
InitMPC ==
    /\ PlannerIdle
    /\ EntryIdle
    /\ SysIdle
    /\ mpc = NoCall
    /\ \E N \in 1..MaxN : \E T \in {5, 10} : \E zero \in {815, 2000} : \E sense \in {-1, 1} :
           ctl = [control_options |-> options(N, T),
                  control_bounds |-> <<0, Radians(90)>>,
                  references |-> [zero |-> zero, sense |-> sense]]

NextMPC ==
    \/ Measure
    \/ Controller

\* the controller called at every control update of a simulation
SpecMPC == InitMPC /\ [][NextMPC]_vars

\* System(InputSample), and the composite state x0 the caller starts from
InitSystem ==
    /\ PlannerIdle
    /\ EntryIdle
    /\ MpcIdle
    /\ \E CD \in {0, 1} : \E CL \in {0, 1} : \E rho0 \in {0, 1} : \E sh \in {0, 1} :
           sys = SystemInit(<<CD, CL, rho0, sh>>)
    /\ \E x \in NavPoints : \E RL \in {Den, 3 * Den} : \E RD \in {Den, 3 * Den} :
           comp = [r |-> x[1], v |-> x[2], RL |-> RL, RD |-> RD, n |-> 0,
                   d |-> <<0, 0>>, h |-> 0]

NextSystem ==
    \/ SetFilterGain
    \/ IntegrationStep

\* one System under integration, with the filter gain set at any time
SpecSystem == InitSystem /\ [][NextSystem]_vars

-----------------------------------------------------------------------------
(* Claims about the planner *)

NonNegative(T)       == \A i \in 1..Len(T) : T[i] >= 0
StrictlyAscending(T) == \A i \in 1..(Len(T) - 1) : T[i] < T[i + 1]
NonDescending(T)     == \A i \in 1..(Len(T) - 1) : T[i] <= T[i + 1]
HasTie(T)            == \E i \in 1..(Len(T) - 1) : T[i] = T[i + 1]

\* C1 as stated: with the time sign convention checkFeasibility returns 0 exactly
\* when the switch times are non-negative and strictly ascending, and a strictly
\* positive value for every other vector, ties included.
C1_AsStated ==
    (chk.sign = -1 /\ chk.T # << >>) =>
        /\ (chk.ret = 0) <=> (NonNegative(chk.T) /\ StrictlyAscending(chk.T))
        /\ ~(NonNegative(chk.T) /\ StrictlyAscending(chk.T)) => chk.ret > 0

\* C1 amended: with the time sign convention checkFeasibility returns 0 exactly
\* when the switch times are non-negative and non-descending (t1 <= t2 <= t3, ties
\* allowed); for every other vector (a negative entry or a strictly descending
\* pair) it returns a strictly positive value, at least 1e7.
C1_ZeroIffNonNegativeNonDescending ==
    (chk.sign = -1 /\ chk.T # << >>) =>
        /\ (chk.ret = 0) <=> (NonNegative(chk.T) /\ NonDescending(chk.T))
        /\ ~(NonNegative(chk.T) /\ NonDescending(chk.T)) => chk.ret >= 10000000

\* a three-switch candidate with a tie and no violation was checked and cost 0
C1_Witness ==
    /\ chk.sign = -1
    /\ Len(chk.T) = 3
    /\ HasTie(chk.T) /\ NonNegative(chk.T) /\ NonDescending(chk.T)
    /\ chk.ret = 0

\* an ordering the parametrization calls infeasible, stated without the check:
\* times must be non-negative and ascending; in the velocity parametrization the
\* candidates are negated velocities, and the velocities -T must be non-negative
\* and descending
InfeasibleOrdering(check, T) ==
    IF check = "vel"
    THEN \/ \E i \in 1..Len(T) : -T[i] < 0
         \/ \E i \in 1..(Len(T) - 1) : -T[i] < -T[i + 1]
    ELSE \/ \E i \in 1..Len(T) : T[i] < 0
         \/ \E i \in 1..(Len(T) - 1) : T[i] > T[i + 1]

\* C2: every infeasible switch vector handed to HEPCost with the arguments an
\* offline optimizer entry point builds (Optimize: the time or the velocity
\* check; OptimizeSmooth: lambda T: True) comes back as the feasibility penalty
\* (at least 1e7) without the trajectory integration having been started.
C2_InfeasibleShortCircuits ==
    (hep.T # << >> /\ hep.check \in Checks /\ InfeasibleOrdering(hep.check, hep.T))
        => (hep.J >= 10000000 /\ ~hep.integrated /\ hep.raised = "")

\* C3: over consecutive samples t, t+d of the grid (d = 1 tick) every generator
\* changes by at most maxRate * d, for all switch tuples, samples around t = 0 and
\* switch points closer than a ramp included.
C3_RateBounded ==
    (bank.done /\ ~bank.T.scalar) =>
        \A i \in 1..(Len(bank.ret.v) - 1) :
            Abs(bank.ret.v[i + 1] - bank.ret.v[i]) <= PerTick(Radians(20)) * 1

\* C4: a generator returns a scalar for a scalar independent variable, and for a
\* sequence a sequence with one bank value per input element.
C4_ShapeMatches ==
    bank.done =>
        /\ bank.ret.scalar = bank.T.scalar
        /\ ~bank.T.scalar => Len(bank.ret.v) = Len(bank.T.v)

\* C11: HEPBankReducedSmooth is continuous and acceleration limited for every
\* t1, t2, a second switch before the end of the first reversal (t2 <= t1d)
\* included: over consecutive samples of the grid (d = 1 tick) the profile changes
\* by at most maxRate * d and its second difference is at most maxAcc * d^2.
C11_SmoothAccelerationBounded ==
    (bank.done /\ bank.gen = "HEPBankReducedSmooth") =>
        /\ \A i \in 1..(Len(bank.ret.v) - 1) :
               Abs(bank.ret.v[i + 1] - bank.ret.v[i]) <= PerTick(Radians(20)) * 1
        /\ \A i \in 1..(Len(bank.ret.v) - 2) :
               Abs(bank.ret.v[i + 2] - 2 * bank.ret.v[i + 1] + bank.ret.v[i])
                   <= PerTick2(Radians(5)) * 1 * 1

-----------------------------------------------------------------------------
(* Claims about the Entry engine *)

\* C5: construction with an unsupported DegFreedom raises; it never hands back an
\* instance on which no dynamics model is selected.
C5_ConstructionFailsFast ==
    eng.status = "constructed" => eng.dyn_model # "unset"

\* the latest evaluation on record
Latest == evals[Len(evals)]

\* C6: once powered, an instance stays powered under update_ratios, ignite,
\* dynamics and evaluations; every function dynamics(u) hands out while the
\* instance is powered carries the thrust term, and evaluating such a function
\* returns the base derivative plus __thrust_3dof.
C6_IgniteOneWay ==
    [][/\ eng.powered => eng'.powered
       /\ eng.powered => \A fn \in funcs' \ funcs : fn.thrust
       /\ (evals' # evals /\ evals'[Len(evals')].f.thrust
             /\ dyn_model(eng, evals'[Len(evals')].x, 0, evals'[Len(evals')].f.u).ok)
            => evals'[Len(evals')].res =
                 Value(VecAdd(dyn_model(eng, evals'[Len(evals')].x, 0,
                                        evals'[Len(evals')].f.u).val,
                              thrust_3dof(eng, evals'[Len(evals')].x,
                                          evals'[Len(evals')].f.u)))
      ]_vars

\* the instance was ignited after handing out an unpowered function, handed out a
\* powered one afterwards, and that one was evaluated with throttle on
C6_Witness ==
    /\ eng.powered
    /\ \E fn \in funcs : ~fn.thrust
    /\ evals # << >>
    /\ Latest.f.thrust /\ Latest.f.u[2] = 1 /\ Latest.res.ok

\* the engine as it was when evaluation e was made, with the non-rotating model
NonRotatingAt(e) ==
    [eng EXCEPT !.dyn_model = "entry_3dof",
                !.lift_ratio = e.lift_ratio, !.drag_ratio = e.drag_ratio]

\* C7: in rotating-planet mode an evaluation completes with a result, which is
\* the non-rotating derivative for the same control except in the
\* flight-path-angle and heading components (5 and 6).
C7_CoriolisEvaluates ==
    \A i \in 1..Len(evals) :
        eng.dyn_model = "entry_vinhs" =>
            /\ evals[i].res.ok
            /\ \A k \in {1, 2, 3, 4, 7, 8} :
                 evals[i].res.val[k] =
                   Lambda(NonRotatingAt(evals[i]), evals[i].f, evals[i].x, evals[i].t).val[k]

SameCall(a, b) == a.f = b.f /\ a.x = b.x /\ a.t = b.t

\* C10 as stated: two evaluations of a derivative function with the same state,
\* time and control return the same result whatever operations (update_ratios,
\* ignite, dynamics) happen in between, and an evaluation leaves the instance's
\* fields unchanged.
C10_AsStated ==
    /\ [](\A i, j \in 1..Len(evals) : SameCall(evals[i], evals[j]) => evals[i].res = evals[j].res)
    /\ [][evals' # evals => eng' = eng]_vars

\* C10 amended: two evaluations of a derivative function with the same state,
\* time and control return the same result whenever lift_ratio and drag_ratio are
\* the same at both, whatever ignite and dynamics calls happen in between; and an
\* evaluation leaves lift_ratio, drag_ratio and powered unchanged.
C10_PureGivenRatios ==
    /\ [](\A i, j \in 1..Len(evals) :
             (SameCall(evals[i], evals[j])
                /\ evals[i].lift_ratio = evals[j].lift_ratio
                /\ evals[i].drag_ratio = evals[j].drag_ratio)
               => evals[i].res = evals[j].res)
    /\ [][evals' # evals => eng' = eng]_vars

\* an unpowered function with throttle on was evaluated twice on the same state
\* under the same non-nominal ratios, and the instance has been ignited since it
\* was handed out
C10_Witness ==
    /\ Len(evals) = 2
    /\ SameCall(evals[1], evals[2])
    /\ ~evals[1].f.thrust /\ evals[1].f.u[2] = 1
    /\ eng.powered
    /\ evals[1].lift_ratio = 2 /\ evals[2].lift_ratio = 2
    /\ evals[1].drag_ratio = evals[2].drag_ratio
    /\ evals[1].res.ok /\ evals[1].res = evals[2].res

\* the engine as it was when evaluation e was made
EngineAt(e) == [eng EXCEPT !.lift_ratio = e.lift_ratio, !.drag_ratio = e.drag_ratio]

\* the same evaluation made through the unpowered derivative function
Unpowered(e) == Lambda(EngineAt(e), [e.f EXCEPT !.thrust = FALSE], e.x, e.t)

\* C12: a powered evaluation that returns has the radius, longitude, latitude,
\* heading and range components of the unpowered derivative for the same state
\* and control, and its mass component is the mass-flow rate at the commanded
\* throttle, counted once.
C12_MassFlowCountedOnce ==
    \A i \in 1..Len(evals) :
        (evals[i].f.thrust /\ evals[i].res.ok) =>
            /\ \A k \in {1, 2, 3, 6, 7} : evals[i].res.val[k] = Unpowered(evals[i]).val[k]
            /\ evals[i].res.val[8] = 100 * mdot(evals[i].f.u[2])

-----------------------------------------------------------------------------
(* Claims about the receding-horizon controller *)

\* the first control segment of the optimizer's solution
FirstSegment(sol) == IF sol.scalar THEN sol.v ELSE sol.v[1]

\* the reference bank angle at vf = v + T*(D*sin(fpa) - 3.7), computed from the
\* call's inputs
ReferenceAtHorizon ==
    ReferenceBank(ctl.references,
                  10 * mpc.kwargs.velocity
                    + ctl.control_options.T * (2 * mpc.kwargs.drag * sin5(mpc.kwargs.fpa) - 37))

\* C8 as stated: the command has the magnitude of the first control segment and
\* the sign of the reference bank angle at the end-of-horizon velocity estimate,
\* and the call leaves the reference data and control options unchanged.
C8_AsStated ==
    /\ [](mpc.state = "returned" =>
            /\ Abs(mpc.cmd) = Abs(FirstSegment(mpc.sol))
            /\ Sign(mpc.cmd) = Sign(ReferenceAtHorizon))
    /\ [][ctl' = ctl]_vars

\* C8 amended: the command is the first control segment multiplied by the sign
\* (-1, 0 or 1) of the reference bank angle at vf: it has the first segment's
\* magnitude whenever that reference angle is non-zero and is 0 when it is zero,
\* and its sign is the reference's whenever the first segment is positive; later
\* segments never reach the output, and the call leaves the reference data and
\* control options unchanged.
C8_FirstSegmentTimesSign ==
    /\ [](mpc.state = "returned" =>
            /\ mpc.cmd = FirstSegment(mpc.sol) * Sign(ReferenceAtHorizon)
            /\ ReferenceAtHorizon # 0 => Abs(mpc.cmd) = Abs(FirstSegment(mpc.sol))
            /\ ReferenceAtHorizon = 0 => mpc.cmd = 0
            /\ FirstSegment(mpc.sol) > 0 => Sign(mpc.cmd) = Sign(ReferenceAtHorizon))
    /\ [][ctl' = ctl]_vars

\* a call with N > 1 whose later segments differ from the first, drag acting on
\* the velocity estimate, and a negative reference angle: the command is the
\* first segment negated
C8_Witness ==
    /\ mpc.state = "returned"
    /\ ctl.control_options.N > 1
    /\ mpc.sol.v[2] # mpc.sol.v[1]
    /\ mpc.kwargs.drag > 0 /\ mpc.kwargs.fpa # 0
    /\ ReferenceAtHorizon < 0
    /\ mpc.sol.v[1] > 0
    /\ mpc.cmd = -mpc.sol.v[1]

-----------------------------------------------------------------------------
(* Claims about the composite System *)

\* the measured ratios at the navigated point: nav aeroforce over nominal-model
\* aeroforce, i.e. the ratio of the two densities there times the ratio of the
\* coefficients. They are constant along a trajectory when the nav engine has the
\* nominal scale height, and constant from one step to the next whenever the
\* density ratio is the same at both points.
DensityRatio ==
    LET h == comp.r - Planet("number").radius
    IN  ((1 + sys.nav.rho0) * atmosphere(h \div (1 + sys.nav.scaleHeight))[1])
            \div atmosphere(h)[1]
MeasuredLift == Den * DensityRatio * (1 + sys.nav.CL)
MeasuredDrag == Den * DensityRatio * (1 + sys.nav.CD)

\* from x to y is a move toward m that does not pass it (and a real move unless
\* x is already m)
Toward(x, y, m) ==
    /\ x < m => (x < y /\ y <= m)
    /\ x > m => (x > y /\ y >= m)
    /\ x = m => y = m

====
